---- MODULE Spec2Model ----
(***************************************************************************)
(* Product Importer: the streaming CSV import pipeline                      *)
(* (products/tasks.py), the product CRUD views that share the product       *)
(* table with it (products/views.py, products/signals.py) and the webhook   *)
(* dispatch and delivery tasks (webhooks/tasks.py, webhooks/views.py).      *)
(*                                                                         *)
(* Strings are sequences of one-character strings, so that strip(),        *)
(* upper() and lower() are computed and not assumed.  Prices are kept in   *)
(* cents.  Every database statement that another process can observe is a  *)
(* step of its own, and so is every task handed to the task queue; what a  *)
(* transaction writes is seen by the others at its commit, and the rows it *)
(* has deleted are locked until then.                                      *)
(***************************************************************************)
EXTENDS Integers, Sequences, FiniteSets, TLC

----------------------------------------------------------------------------
(* Bounds of the model.                                                    *)

\* import jobs that are uploaded
MaxJobs == 2
\* data rows of an uploaded CSV file
MaxRows == 2
\* data rows of a CSV file in the sequential scenario (SpecSeq)
MaxRowsSeq == 3
\* requests to the product views while imports run (a request triggers one event
\* per product it writes)
MaxTriggers == 1
\* requests to the product views while no import runs (SpecSeq, SpecSignals)
MaxTriggersAlone == 2
\* requests to WebhookUpdateView
MaxWebhookEdits == 1
\* requests to webhook_test
MaxTests == 1
\* tasks ever handed to the task queue (SpecHooks, SpecSignals)
MaxTasks == 3
\* tasks ever handed to the task queue while an import runs (SpecEvents) or
\* destinations of every kind answer (SpecDeliver)
MaxTasksEvents == 2
\* webhooks ever created
MaxWebhooks == 2
\* data rows of a CSV file while webhooks are delivered (SpecEvents)
MaxRowsEvents == 1
\* runs of the task of one job (SpecRerun)
MaxRuns == 2
\* rows per batch: CHUNK_SIZE = 5000 in the source, scaled down
CHUNK_SIZE == 2
\* total_rows is saved every that many rows: 1000 in the source, scaled down
SAVE_EVERY == 2

----------------------------------------------------------------------------
(* Strings.                                                                *)

upperChar(c) ==
    CASE c = "a" -> "A"
      [] c = "b" -> "B"
      [] OTHER -> c

lowerChar(c) ==
    CASE c = "A" -> "a"
      [] c = "B" -> "b"
      [] OTHER -> c

\* str.upper()
upper(s) == [i \in 1..Len(s) |-> upperChar(s[i])]

\* str.lower(), and the database function Lower()
lower(s) == [i \in 1..Len(s) |-> lowerChar(s[i])]

isSpace(c) == c = " "

RECURSIVE lstrip(_)
lstrip(s) ==
    IF s = <<>> THEN <<>>
    ELSE IF isSpace(Head(s)) THEN lstrip(Tail(s)) ELSE s

RECURSIVE rstrip(_)
rstrip(s) ==
    IF s = <<>> THEN <<>>
    ELSE IF isSpace(s[Len(s)]) THEN rstrip(SubSeq(s, 1, Len(s) - 1)) ELSE s

\* str.strip()
strip(s) == rstrip(lstrip(s))

\* (row.get(k) or ""): a column missing from the row reads as None
get_or_empty(row, k) == IF k \in DOMAIN row THEN row[k] ELSE <<>>

----------------------------------------------------------------------------
(* Decimal(raw_price), in cents; InvalidOperation is ok = FALSE.           *)

Digits == <<"0", "1", "2", "3", "4", "5", "6", "7", "8", "9">>

isDigit(c) == \E d \in 1..10 : Digits[d] = c

digitVal(c) == (CHOOSE d \in 1..10 : Digits[d] = c) - 1

RECURSIVE digitsVal(_)
digitsVal(s) ==
    IF s = <<>> THEN 0
    ELSE digitsVal(SubSeq(s, 1, Len(s) - 1)) * 10 + digitVal(s[Len(s)])

allDigits(s) == \A i \in 1..Len(s) : isDigit(s[i])

dotAt(s) == IF \E i \in 1..Len(s) : s[i] = "."
            THEN CHOOSE i \in 1..Len(s) : s[i] = "." /\ \A k \in 1..(i - 1) : s[k] # "."
            ELSE 0

\* Decimal() of a decimal numeral with an optional sign: digits, with or without a
\* point and fraction digits ("10", "1.", ".5", "-9.99"); the price strings of the
\* model have at most two fraction digits, so no rounding to decimal_places=2
\* takes place
Decimal(s) ==
    LET signed == s # <<>> /\ Head(s) \in {"+", "-"}
        num == IF signed THEN Tail(s) ELSE s
        d == dotAt(num)
        ip == IF d = 0 THEN num ELSE SubSeq(num, 1, d - 1)
        fp == IF d = 0 THEN <<>> ELSE SubSeq(num, d + 1, Len(num))
        valid == /\ allDigits(ip) /\ allDigits(fp)
                 /\ Len(ip) + Len(fp) > 0
        frac == IF fp = <<>> THEN 0
                ELSE IF Len(fp) = 1 THEN digitsVal(fp) * 10
                ELSE digitsVal(SubSeq(fp, 1, 2))
        cents == digitsVal(ip) * 100 + frac
    IN  IF valid THEN [ok |-> TRUE, cents |-> IF signed /\ Head(s) = "-" THEN 0 - cents
                                              ELSE cents]
        ELSE [ok |-> FALSE, cents |-> 0]

----------------------------------------------------------------------------
(* Row Normalizer.                                                         *)

\* the value returned for a row that is skipped
None == [none |-> TRUE]

\* _normalize_row without "if not raw_sku: return None"
_normalize_row_keeps_blank(row) ==
    LET raw_price == strip(get_or_empty(row, "price"))
        price == IF raw_price = <<>> THEN 0
                 ELSE IF Decimal(raw_price).ok THEN Decimal(raw_price).cents ELSE 0
    IN  [sku_upper |-> upper(strip(get_or_empty(row, "sku"))),
         name |-> strip(get_or_empty(row, "name")),
         description |-> strip(get_or_empty(row, "description")),
         price |-> price]

_normalize_row(row) ==
    LET raw_sku == strip(get_or_empty(row, "sku"))
        raw_price == strip(get_or_empty(row, "price"))
        price == IF raw_price = <<>> THEN 0
                 ELSE IF Decimal(raw_price).ok THEN Decimal(raw_price).cents ELSE 0
    IN  IF raw_sku = <<>> THEN None
        ELSE [sku_upper |-> upper(raw_sku),
              name |-> strip(get_or_empty(row, "name")),
              description |-> strip(get_or_empty(row, "description")),
              price |-> price]

----------------------------------------------------------------------------
(* Inputs.                                                                 *)

\* raw CSV rows, as csv.DictReader yields them
RowPool ==
    { [sku |-> <<"a">>, name |-> <<"n">>, description |-> <<>>,
       price |-> <<"1", "0">>],
      [sku |-> <<" ", "A">>, name |-> <<"m", " ">>, description |-> <<"d">>,
       price |-> <<"1", "2", ".", "5", "0">>],
      [sku |-> <<" ">>, name |-> <<"s">>, description |-> <<>>, price |-> <<>>],
      [sku |-> <<"b">>, name |-> <<"n">>, description |-> <<>>, price |-> <<"x">>] }

\* a row whose line ends before the sku column
ShortRow == [name |-> <<"s">>]

Files(pool, n) == UNION { [1..k -> pool] : k \in 0..n }

\* what a user types into ProductForm (CharField strips, nothing upper-cases)
FormValues ==
    [sku : {<<"a">>, <<"b">>}, name : {<<"u">>}, description : {<<>>},
     price : {500}, is_active : BOOLEAN]

\* the product forms submitted while the webhooks are exercised
HookFormValues ==
    [sku : {<<"a">>}, name : {<<"u">>}, description : {<<>>}, price : {500},
     is_active : {TRUE}]

EventNames == {"product.created", "product.updated", "product.deleted", "import.completed"}

\* what a user submits in WebhookForm
WebhookFormValues == [event : {"product.created", "product.deleted"}, is_enabled : BOOLEAN]

\* how requests.post ends: a response (status code, length of its text) or an
\* exception (length of its message); elapsed is the measured time in ms
Outcomes ==
    { [kind |-> "response", status_code |-> 200, text |-> 2, elapsed |-> 20],
      [kind |-> "response", status_code |-> 500, text |-> 600, elapsed |-> 20],
      [kind |-> "exception", status_code |-> 0, text |-> 40, elapsed |-> 5001] }

Msg(text) == <<text>>

----------------------------------------------------------------------------
(* State.                                                                  *)

VARIABLES
    products,     \* table Product: set of rows
    nextPk,       \* next value of Product's AutoField
    jobs,         \* table ImportJob: sequence of rows, the job id is the index
    worker,       \* per job: the local variables of its process_import_job task
    webhooks,     \* table Webhook: set of rows
    nextWebhook,  \* next value of Webhook's AutoField
    deliveries,   \* table WebhookDelivery: set of rows
    nextDelivery, \* next value of WebhookDelivery's AutoField
    tasks,        \* deliver_webhook tasks handed to the task queue, with their locals
    triggers,     \* log of the calls of trigger_event_webhooks
    posts,        \* log of the HTTP POSTs sent
    observed,     \* history: the product table as it was when a file was uploaded again
    committed,    \* history, per job: the sizes of the batches its current run committed
    storage,      \* per job: what job.file refers to ("stored", "deleted", "absent")
    runs,         \* history, per job: the status each earlier run of its task left
    requests,     \* the requests to the views that take several statements, by arrival
    gone          \* history: the keys of the webhooks that were deleted

vars == <<products, nextPk, jobs, worker, webhooks, nextWebhook, deliveries,
          nextDelivery, tasks, triggers, posts, observed, committed,
          storage, runs, requests, gone>>

importVars == <<products, nextPk, jobs, worker>>
hookVars == <<webhooks, nextWebhook, deliveries, nextDelivery, tasks, posts, observed>>

JobIds == 1..Len(jobs)

Init ==
    /\ products = {}
    /\ nextPk = 1
    /\ jobs = <<>>
    /\ worker = <<>>
    /\ webhooks = {}
    /\ nextWebhook = 1
    /\ deliveries = {}
    /\ nextDelivery = 1
    /\ tasks = {}
    /\ triggers = <<>>
    /\ posts = {}
    /\ observed = {}
    /\ committed = <<>>
    /\ storage = <<>>
    /\ runs = <<>>
    /\ requests = <<>>
    /\ gone = {}

----------------------------------------------------------------------------
(* Product table.                                                          *)

\* a constraint on sku instead of Lower("sku")
uniq_product_sku_ci_cs(rows) ==
    \A p \in rows, q \in rows : p.pk # q.pk => p.sku # q.sku

\* UniqueConstraint(Lower("sku"), name="uniq_product_sku_ci")
uniq_product_sku_ci(rows) ==
    \A p \in rows, q \in rows : p.pk # q.pk => lower(p.sku) # lower(q.sku)

\* Product(sku=..., name=..., description=..., price=...) once inserted with key pk
NewProduct(pk, sku, name, description, price, is_active) ==
    [pk |-> pk, sku |-> sku, name |-> name, description |-> description,
     price |-> price, is_active |-> is_active]

----------------------------------------------------------------------------
(* Requests to the views that take several statements.                     *)

\* a request between two of its statements: the view, where the request stands,
\* the key in its URL, the event of the signal it sends, the instances for which
\* the signal is still to be sent, the keys of the rows that its open transaction
\* has deleted, the locals of the call of trigger_event_webhooks it is in, and
\* (history) the keys of the instances for which its handler made that call
Request(view, pc, pk, event, todo, deleted) ==
    [view |-> view, pc |-> pc, pk |-> pk, event |-> event, todo |-> todo,
     deleted |-> deleted, trig |-> 0, pending |-> {}, called |-> {}]

\* a request that has been answered
Finished(view) == Request(view, "finished", 0, "", <<>>, {})

\* the requests to the views of the set that have arrived so far
Started(views) == Cardinality({ i \in DOMAIN requests : requests[i].view \in views })

\* every request has been answered
Quiet == \A i \in DOMAIN requests : requests[i].pc = "finished"

\* the keys of the rows deleted by transactions that are still open
Locked == UNION { requests[i].deleted : i \in DOMAIN requests }

\* a statement that writes the rows with the keys pks, or inserts rows with the
\* SKUs skus, waits while an open transaction has deleted one of these rows or a
\* row that holds one of these SKUs in the unique index
Waits(pks, skus) ==
    \E p \in products :
        /\ p.pk \in Locked
        /\ p.pk \in pks \/ lower(p.sku) \in { lower(x) : x \in skus }

----------------------------------------------------------------------------
(* Event Bus.                                                              *)

\* Webhook.objects.filter(event=event, is_enabled=True)
Matching(event) == { w.id : w \in { x \in webhooks : x.event = event /\ x.is_enabled } }

\* a deliver_webhook task as deliver_webhook.delay(webhook.id, payload, event=event)
\* queues it; trig is the index of the trigger_event_webhooks call in the log.
\* Its locals: the key of its receipt, how requests.post ended, and the exception
\* that the except block handles when the save of the try block was refused
QueuedTask(trig, id, event, payload) ==
    [trig |-> trig, webhook |-> id, event |-> event, payload |-> payload,
     pc |-> "queued", delivery |-> 0, outcome |-> <<>>, exc |-> <<>>]

\* a pass of "for webhook in qs: deliver_webhook.delay(...)" that leaves the loop
ScheduleFirstOnly(trig, id, pending, event, payload) ==
    [task |-> QueuedTask(trig, id, event, payload), pending |-> {}]

\* one pass of "for webhook in qs: deliver_webhook.delay(webhook.id, payload,
\* event=event)" for the row id the loop yields: the task it queues and the
\* webhooks still to come. The query has no ORDER BY and Webhook no Meta.ordering:
\* the rows come in the order the database returns them, any row of those still
\* to come can be the next one
Schedule(trig, id, pending, event, payload) ==
    [task |-> QueuedTask(trig, id, event, payload), pending |-> pending \ {id}]

\* trigger_event_webhooks(event, payload) up to its first pass: the loop starts by
\* running the query, all rows at once. The call is logged with the webhooks the
\* query returned; with none of them the call returns at once
trigger_event_webhooks(event) ==
    LET qs == Matching(event)
    IN  [triggers |-> Append(triggers, [event |-> event, matched |-> qs,
                                        returned |-> qs = {}]),
         trig |-> Len(triggers) + 1,
         pending |-> qs]

\* the log once the call with index trig has left its loop after the last pass
Returned(trig) == [triggers EXCEPT ![trig].returned = TRUE]

----------------------------------------------------------------------------
(* Upsert Engine: the part of _upsert_products before the transaction.     *)

\* the loop with "existing.description = item["name"]" in the update branch
RECURSIVE StageCopyPaste(_, _, _, _)
StageCopyPaste(items, ex, to_create, to_update) ==
    IF items = <<>> THEN [existing |-> ex, to_create |-> to_create, to_update |-> to_update]
    ELSE LET item == Head(items)
             key == lower(item.sku_upper)
         IN  IF key \in DOMAIN ex
             THEN StageCopyPaste(Tail(items),
                        [ex EXCEPT ![key].name = item.name,
                                   ![key].description = item.name,
                                   ![key].price = item.price],
                        to_create, Append(to_update, key))
             ELSE StageCopyPaste(Tail(items), ex,
                        Append(to_create,
                               [sku |-> item.sku_upper, name |-> item.name,
                                description |-> item.description, price |-> item.price,
                                is_active |-> TRUE]),
                        to_update)

\* the loop "for item in items": ex maps a lower-cased SKU to the model instance
\* read by the lookup query; to_update lists instances by that key
RECURSIVE Stage(_, _, _, _)
Stage(items, ex, to_create, to_update) ==
    IF items = <<>> THEN [existing |-> ex, to_create |-> to_create, to_update |-> to_update]
    ELSE LET item == Head(items)
             key == lower(item.sku_upper)
         IN  IF key \in DOMAIN ex
             THEN Stage(Tail(items),
                        [ex EXCEPT ![key].name = item.name,
                                   ![key].description = item.description,
                                   ![key].price = item.price],
                        to_create, Append(to_update, key))
             ELSE Stage(Tail(items), ex,
                        Append(to_create,
                               [sku |-> item.sku_upper, name |-> item.name,
                                description |-> item.description, price |-> item.price,
                                is_active |-> TRUE]),
                        to_update)

\* existing_by_lower = {p.sku.lower(): p for p in existing_qs}
existing_by_lower(items) ==
    LET sku_lowers == { lower(items[i].sku_upper) : i \in 1..Len(items) }
        existing_qs == { p \in products : lower(p.sku) \in sku_lowers }
    IN  [k \in { lower(p.sku) : p \in existing_qs } |->
            CHOOSE p \in existing_qs : lower(p.sku) = k]

----------------------------------------------------------------------------
(* Upsert Engine: the transaction.                                         *)

\* Product.objects.bulk_create(to_create): rows get consecutive keys
bulk_create(rows, to_create) ==
    rows \cup { NewProduct(nextPk + i - 1, to_create[i].sku, to_create[i].name,
                           to_create[i].description, to_create[i].price,
                           to_create[i].is_active) : i \in 1..Len(to_create) }

\* Product.objects.bulk_update(to_update, fields=[name, description, price,
\* updated_at]) with every column written from the instance
bulk_update_all_fields(rows, ex, to_update) ==
    LET pks == { ex[to_update[i]].pk : i \in 1..Len(to_update) }
        obj(pk) == CHOOSE o \in { ex[to_update[i]] : i \in 1..Len(to_update) } : o.pk = pk
    IN  { IF r.pk \in pks THEN obj(r.pk) ELSE r : r \in rows }

\* the transaction without "if to_update: Product.objects.bulk_update(...)"
bulk_update_nothing(rows, ex, to_update) == rows

\* Product.objects.bulk_update(to_update, fields=[name, description, price,
\* updated_at]): UPDATE ... WHERE pk = obj.pk; a row that is gone is not updated
bulk_update(rows, ex, to_update) ==
    LET pks == { ex[to_update[i]].pk : i \in 1..Len(to_update) }
        obj(pk) == CHOOSE o \in { ex[to_update[i]] : i \in 1..Len(to_update) } : o.pk = pk
    IN  { IF r.pk \in pks
          THEN [r EXCEPT !.name = obj(r.pk).name,
                         !.description = obj(r.pk).description,
                         !.price = obj(r.pk).price]
          ELSE r : r \in rows }

----------------------------------------------------------------------------
(* Import Job Coordinator: upload_view and process_import_job.             *)

NewJob(f) ==
    [status |-> "pending", total_rows |-> 0, processed_rows |-> 0,
     error_message |-> <<>>, file |-> f]

\* the locals of a process_import_job task that has not started
NewWorker ==
    [pc |-> "queued",
     job |-> [status |-> "pending", error_message |-> <<>>, total_rows |-> 0,
              processed_rows |-> 0],
     idx |-> 0, buffer |-> <<>>, at |-> "loop",
     existing |-> <<>>, to_create |-> <<>>, to_update |-> <<>>, exc |-> <<>>,
     trig |-> 0, pending |-> {}]

\* where the task goes after a pass of "for idx, row in enumerate(reader)":
\* the next row, or "if buffer:" after the loop
AfterRow(idx, buffer, file) ==
    IF idx < Len(file) THEN [pc |-> "read", at |-> "loop"]
    ELSE IF buffer # <<>> THEN [pc |-> "lookup", at |-> "flush"]
    ELSE [pc |-> "finish", at |-> "flush"]

\* upload_view: ImportJob.objects.create(...), process_import_job.delay(job.id)
Upload(f) ==
    /\ Len(jobs) < MaxJobs
    /\ jobs' = Append(jobs, NewJob(f))
    /\ worker' = Append(worker, NewWorker)
    /\ committed' = Append(committed, <<>>)
    /\ storage' = Append(storage, "stored")
    /\ runs' = Append(runs, <<>>)
    /\ UNCHANGED <<products, nextPk, triggers, hookVars, requests, gone>>

\* process_import_job resetting status and error_message only: the counters of
\* the loaded row are kept
StartJobKeepsCounters(j) ==
    /\ worker[j].pc = "queued"
    /\ LET job == [status |-> "processing", error_message |-> <<>>,
                   total_rows |-> jobs[j].total_rows,
                   processed_rows |-> jobs[j].processed_rows]
       IN  /\ jobs' = [jobs EXCEPT ![j].status = job.status,
                                   ![j].error_message = job.error_message]
           /\ worker' = [worker EXCEPT ![j].job = job, ![j].pc = "open"]
    /\ committed' = [committed EXCEPT ![j] = <<>>]
    /\ UNCHANGED <<products, nextPk, triggers, hookVars, storage, runs, requests, gone>>

\* process_import_job without "job.error_message = ''" in the reset
StartJobKeepsMessage(j) ==
    /\ worker[j].pc = "queued"
    /\ LET job == [status |-> "processing", error_message |-> jobs[j].error_message,
                   total_rows |-> 0, processed_rows |-> 0]
       IN  /\ jobs' = [jobs EXCEPT ![j].status = job.status,
                                   ![j].total_rows = job.total_rows,
                                   ![j].processed_rows = job.processed_rows]
           /\ worker' = [worker EXCEPT ![j].job = job, ![j].pc = "open"]
    /\ committed' = [committed EXCEPT ![j] = <<>>]
    /\ UNCHANGED <<products, nextPk, triggers, hookVars, storage, runs, requests, gone>>

\* process_import_job, up to the first save: the progress is reset
StartJob(j) ==
    /\ worker[j].pc = "queued"
    /\ LET job == [status |-> "processing", error_message |-> <<>>,
                   total_rows |-> 0, processed_rows |-> 0]
       IN  /\ jobs' = [jobs EXCEPT ![j].status = job.status,
                                   ![j].error_message = job.error_message,
                                   ![j].total_rows = job.total_rows,
                                   ![j].processed_rows = job.processed_rows]
           /\ worker' = [worker EXCEPT ![j].job = job, ![j].pc = "open"]
    /\ committed' = [committed EXCEPT ![j] = <<>>]
    /\ UNCHANGED <<products, nextPk, triggers, hookVars, storage, runs, requests, gone>>

\* job.file.open("rb"), csv.DictReader(wrapper), buffer = []
OpenFile(j) ==
    /\ worker[j].pc = "open"
    /\ storage[j] = "stored"
    /\ LET nxt == AfterRow(0, <<>>, jobs[j].file)
       IN  worker' = [worker EXCEPT ![j].idx = 0, ![j].buffer = <<>>,
                                    ![j].pc = nxt.pc, ![j].at = nxt.at]
    /\ UNCHANGED <<products, nextPk, jobs, triggers, hookVars, committed, storage, runs,
                   requests, gone>>

\* one pass of the loop, up to the call of _upsert_products
ReadRow(j) ==
    /\ worker[j].pc = "read"
    /\ LET w == worker[j]
           idx == w.idx + 1
           row == jobs[j].file[idx]
           normalized == _normalize_row(row)
           buffer == IF normalized = None THEN w.buffer ELSE Append(w.buffer, normalized)
           nxt == IF normalized # None /\ Len(buffer) >= CHUNK_SIZE
                  THEN [pc |-> "lookup", at |-> "loop"]
                  ELSE AfterRow(idx, buffer, jobs[j].file)
       IN  /\ jobs' = IF idx % SAVE_EVERY = 0
                      THEN [jobs EXCEPT ![j].total_rows = idx]
                      ELSE jobs
           /\ worker' = [worker EXCEPT ![j].idx = idx, ![j].job.total_rows = idx,
                                       ![j].buffer = buffer,
                                       ![j].pc = nxt.pc, ![j].at = nxt.at]
    /\ UNCHANGED <<products, nextPk, triggers, hookVars, committed, storage, runs,
                   requests, gone>>

\* _upsert_products up to "with transaction.atomic()": the lookup query and the
\* split into to_create and to_update
UpsertLookup(j) ==
    /\ worker[j].pc = "lookup"
    /\ LET items == worker[j].buffer
           staged == Stage(items, existing_by_lower(items), <<>>, <<>>)
       IN  worker' = [worker EXCEPT ![j].existing = staged.existing,
                                    ![j].to_create = staged.to_create,
                                    ![j].to_update = staged.to_update,
                                    ![j].pc = "commit"]
    /\ UNCHANGED <<products, nextPk, jobs, triggers, hookVars, committed, storage, runs,
                   requests, gone>>

\* the transaction of _upsert_products, and buffer.clear() after the call in the
\* loop; an IntegrityError of bulk_create rolls the transaction back; the
\* transaction waits for the rows that an open transaction has deleted
UpsertCommit(j) ==
    /\ worker[j].pc = "commit"
    /\ LET w == worker[j]
       IN  ~Waits({ w.existing[w.to_update[i]].pk : i \in 1..Len(w.to_update) },
                  { w.to_create[i].sku : i \in 1..Len(w.to_create) })
    /\ LET w == worker[j]
           created == bulk_create(products, w.to_create)
           processed_rows == w.job.processed_rows + Len(w.buffer)
           buffer == IF w.at = "loop" THEN <<>> ELSE w.buffer
           nxt == IF w.at = "loop" THEN AfterRow(w.idx, buffer, jobs[j].file)
                  ELSE [pc |-> "finish", at |-> "flush"]
       IN  IF uniq_product_sku_ci(created)
           THEN /\ products' = bulk_update(created, w.existing, w.to_update)
                /\ nextPk' = nextPk + Len(w.to_create)
                /\ jobs' = [jobs EXCEPT ![j].processed_rows = processed_rows]
                /\ worker' = [worker EXCEPT ![j].job.processed_rows = processed_rows,
                                            ![j].buffer = buffer,
                                            ![j].pc = nxt.pc, ![j].at = nxt.at]
                /\ committed' = [committed EXCEPT ![j] = Append(@, Len(w.buffer))]
           ELSE /\ worker' = [worker EXCEPT ![j].exc = Msg("IntegrityError"),
                                            ![j].pc = "except"]
                /\ UNCHANGED <<products, nextPk, jobs, committed>>
    /\ UNCHANGED <<triggers, hookVars, storage, runs, requests, gone>>

\* job.status = STATUS_COMPLETED; job.save(update_fields=[status, processed_rows,
\* total_rows])
Finish(j) ==
    /\ worker[j].pc = "finish"
    /\ jobs' = [jobs EXCEPT ![j].status = "completed",
                            ![j].processed_rows = worker[j].job.processed_rows,
                            ![j].total_rows = worker[j].job.total_rows]
    /\ worker' = [worker EXCEPT ![j].job.status = "completed", ![j].pc = "trigger"]
    /\ UNCHANGED <<products, nextPk, triggers, hookVars, committed, storage, runs,
                   requests, gone>>

CompletedPayload(j) ==
    [job_id |-> j, total_rows |-> worker[j].job.total_rows,
     processed_rows |-> worker[j].job.processed_rows, status |-> worker[j].job.status]

\* trigger_event_webhooks(event="import.completed", payload=...) is called and
\* runs its query; without a matching webhook it returns and the task ends
TriggerCompleted(j) ==
    /\ worker[j].pc = "trigger"
    /\ LET call == trigger_event_webhooks("import.completed")
       IN  /\ triggers' = call.triggers
           /\ worker' = [worker EXCEPT ![j].trig = call.trig,
                                       ![j].pending = call.pending,
                                       ![j].pc = IF call.pending = {} THEN "done"
                                                 ELSE "publish"]
    /\ UNCHANGED <<products, nextPk, jobs, hookVars, committed, storage, runs, requests,
                   gone>>

\* one pass of the loop of that call: deliver_webhook.delay for the next webhook,
\* whichever the database returned next; after the last pass the call returns and
\* the task ends
TriggerCompletedDelay(j) ==
    /\ worker[j].pc = "publish"
    /\ \E id \in worker[j].pending :
       LET w == worker[j]
           pass == Schedule(w.trig, id, w.pending, "import.completed", CompletedPayload(j))
       IN  /\ tasks' = tasks \cup {pass.task}
           /\ triggers' = IF pass.pending = {} THEN Returned(w.trig) ELSE triggers
           /\ worker' = [worker EXCEPT ![j].pending = pass.pending,
                                       ![j].pc = IF pass.pending = {} THEN "done"
                                                 ELSE "publish"]
    /\ UNCHANGED <<products, nextPk, jobs, webhooks, nextWebhook, deliveries,
                   nextDelivery, posts, observed, committed, storage, runs, requests, gone>>

\* trigger_event_webhooks raises inside the try block before its loop: the query
\* for the webhooks fails (database unreachable); no call is logged
TriggerCompletedRaises(j) ==
    /\ worker[j].pc = "trigger"
    /\ worker' = [worker EXCEPT ![j].exc = Msg("OperationalError"), ![j].pc = "except"]
    /\ UNCHANGED <<products, nextPk, jobs, triggers, hookVars, committed, storage, runs,
                   requests, gone>>

\* trigger_event_webhooks raises inside its loop: deliver_webhook.delay fails
\* (broker unreachable) at the next webhook, the first one or a later one, after
\* the deliveries for the webhooks before it were queued
TriggerCompletedRaisesMidway(j) ==
    /\ worker[j].pc = "publish"
    /\ worker' = [worker EXCEPT ![j].exc = Msg("OperationalError"), ![j].pc = "except"]
    /\ UNCHANGED <<products, nextPk, jobs, triggers, hookVars, committed, storage, runs,
                   requests, gone>>

\* the except block with "job.save()": every field of the instance is written
HandleExceptionSavesAll(j) ==
    /\ worker[j].pc = "except"
    /\ jobs' = [jobs EXCEPT ![j].status = "failed",
                            ![j].error_message = worker[j].exc,
                            ![j].total_rows = worker[j].job.total_rows,
                            ![j].processed_rows = worker[j].job.processed_rows]
    /\ worker' = [worker EXCEPT ![j].job.status = "failed",
                                ![j].job.error_message = worker[j].exc,
                                ![j].pc = "raised"]
    /\ UNCHANGED <<products, nextPk, triggers, hookVars, committed, storage, runs,
                   requests, gone>>

\* the except block with job.save(update_fields=["status"])
HandleExceptionStatusOnly(j) ==
    /\ worker[j].pc = "except"
    /\ jobs' = [jobs EXCEPT ![j].status = "failed"]
    /\ worker' = [worker EXCEPT ![j].job.status = "failed",
                                ![j].job.error_message = worker[j].exc,
                                ![j].pc = "raised"]
    /\ UNCHANGED <<products, nextPk, triggers, hookVars, committed, storage, runs,
                   requests, gone>>

\* except Exception as exc: the job is saved as failed and the exception re-raised
HandleException(j) ==
    /\ worker[j].pc = "except"
    /\ jobs' = [jobs EXCEPT ![j].status = "failed",
                            ![j].error_message = worker[j].exc]
    /\ worker' = [worker EXCEPT ![j].job.status = "failed",
                                ![j].job.error_message = worker[j].exc,
                                ![j].pc = "raised"]
    /\ UNCHANGED <<products, nextPk, triggers, hookVars, committed, storage, runs,
                   requests, gone>>

----------------------------------------------------------------------------
(* Progress Query.                                                         *)

\* ImportJob.progress_percent: int(processed_rows * 100 / total_rows)
progress_percent(job) ==
    IF job.total_rows <= 0 THEN 0
    ELSE (job.processed_rows * 100) \div job.total_rows

\* import_status_api: the JSON built from the row of the job
import_status_api(job_id) ==
    [status |-> jobs[job_id].status,
     total_rows |-> jobs[job_id].total_rows,
     processed_rows |-> jobs[job_id].processed_rows,
     progress |-> progress_percent(jobs[job_id]),
     error_message |-> jobs[job_id].error_message]

----------------------------------------------------------------------------
(* Product views; products/signals.py triggers the events.                 *)

\* the decimal numeral of a number of units
RECURSIVE numeral(_)
numeral(n) ==
    IF n < 10 THEN <<Digits[n + 1]>>
    ELSE numeral(n \div 10) \o <<Digits[(n % 10) + 1]>>

\* str(instance.price) of a price with two fraction digits, as the database
\* returns it and as the forms of the model are filled in
str_price(cents) ==
    LET abs == IF cents < 0 THEN 0 - cents ELSE cents
    IN  (IF cents < 0 THEN <<"-">> ELSE <<>>)
        \o numeral(abs \div 100)
        \o <<".", Digits[((abs % 100) \div 10) + 1], Digits[(abs % 10) + 1]>>

\* _product_payload(instance); updated_at, a reading of the clock, is left out
_product_payload(instance) ==
    [sku |-> instance.sku, name |-> instance.name, description |-> instance.description,
     price |-> str_price(instance.price), is_active |-> instance.is_active]

ProductViews ==
    {"ProductCreateView", "ProductUpdateView", "ProductDeleteView", "bulk_delete_products"}

\* the request after form.save(): the row is committed and post_save is to be sent
\* for the instance, with created as the save found it
Saved(view, instance, created) ==
    Request(view, "signal", instance.pk,
            IF created THEN "product.created" ELSE "product.updated", <<instance>>, {})

\* ProductCreateView with a valid form, up to the INSERT
ProductCreate(v, budget) ==
    /\ Started(ProductViews) < budget
    /\ LET instance == NewProduct(nextPk, v.sku, v.name, v.description, v.price, v.is_active)
       IN  /\ uniq_product_sku_ci(products \cup {instance})
           /\ products' = products \cup {instance}
           /\ nextPk' = nextPk + 1
           /\ requests' = Append(requests, Saved("ProductCreateView", instance, TRUE))
    /\ UNCHANGED <<jobs, worker, triggers, hookVars, committed, storage, runs, gone>>

\* ProductUpdateView: get_object() reads the row of the key
ProductUpdateGetObject(pk, budget) ==
    /\ Started(ProductViews) < budget
    /\ \E old \in products : old.pk = pk
    /\ requests' = Append(requests, Request("ProductUpdateView", "save", pk, "", <<>>, {}))
    /\ UNCHANGED <<importVars, triggers, hookVars, committed, storage, runs, gone>>

\* ProductUpdateView with a valid form, form.save(): every form field is written
\* by an UPDATE of the row of the key; when the row is gone, Model.save() INSERTs
\* it with that key and post_save has created=True
ProductUpdate(i, v) ==
    /\ requests[i].view = "ProductUpdateView" /\ requests[i].pc = "save"
    /\ LET pk == requests[i].pk
           others == { p \in products : p.pk # pk }
           instance == NewProduct(pk, v.sku, v.name, v.description, v.price, v.is_active)
       IN  /\ ~Waits({pk}, {})
           /\ uniq_product_sku_ci(others \cup {instance})
           /\ products' = others \cup {instance}
           /\ requests' = [requests EXCEPT
                  ![i] = Saved("ProductUpdateView", instance, others = products)]
    /\ UNCHANGED <<nextPk, jobs, worker, triggers, hookVars, committed, storage, runs,
                   gone>>

\* ProductDeleteView: get_object() reads the row of the key
ProductDeleteGetObject(pk, budget) ==
    /\ Started(ProductViews) < budget
    /\ \E old \in products :
         /\ old.pk = pk
         /\ requests' = Append(requests,
                Request("ProductDeleteView", "delete", pk, "product.deleted", <<old>>, {}))
    /\ UNCHANGED <<importVars, triggers, hookVars, committed, storage, runs, gone>>

\* the instances that a delete sends post_delete for, in the order of the calls:
\* the collector sorts them by key and reverses the list
RECURSIVE delete_signals(_)
delete_signals(rows) ==
    IF rows = {} THEN <<>>
    ELSE LET last == CHOOSE p \in rows : \A q \in rows : q.pk <= p.pk
         IN  <<last>> \o delete_signals(rows \ {last})

\* bulk_delete_products: Product.objects.all().delete() collects the rows
bulk_delete_products(budget) ==
    /\ products # {}
    /\ Started(ProductViews) < budget
    /\ requests' = Append(requests,
            Request("bulk_delete_products", "delete", 0, "product.deleted",
                    delete_signals(products), {}))
    /\ UNCHANGED <<importVars, triggers, hookVars, committed, storage, runs, gone>>

\* the DELETE of the collected rows, in a transaction that stays open while
\* post_delete is sent: the rows that are still there are deleted, not yet for the
\* other processes
ProductDelete(i) ==
    /\ requests[i].pc = "delete"
    /\ LET r == requests[i]
           pks == { r.todo[k].pk : k \in DOMAIN r.todo }
       IN  /\ ~Waits(pks, {})
           /\ requests' = [requests EXCEPT
                  ![i].pc = "signal",
                  ![i].deleted = { p.pk : p \in { q \in products : q.pk \in pks } }]
    /\ UNCHANGED <<importVars, triggers, hookVars, committed, storage, runs, gone>>

\* the request once the handler has returned for the first instance of todo: the
\* signal is sent for the next instance; after the last one a delete commits, a
\* save is answered
AfterHandler(r) ==
    IF Len(r.todo) > 1
    THEN [r EXCEPT !.pc = "signal", !.todo = Tail(r.todo), !.trig = 0, !.pending = {}]
    ELSE IF r.view \in {"ProductDeleteView", "bulk_delete_products"}
    THEN [r EXCEPT !.pc = "commit", !.todo = <<>>, !.trig = 0, !.pending = {}]
    ELSE Finished(r.view)

\* product_saved and product_deleted: the handler calls trigger_event_webhooks,
\* which runs its query
product_signal(i) ==
    /\ requests[i].pc = "signal"
    /\ LET r == [requests[i] EXCEPT !.called = @ \cup {Head(requests[i].todo).pk}]
           call == trigger_event_webhooks(r.event)
       IN  /\ triggers' = call.triggers
           /\ requests' = [requests EXCEPT
                  ![i] = IF call.pending = {} THEN AfterHandler(r)
                         ELSE [r EXCEPT !.pc = "delay", !.trig = call.trig,
                                        !.pending = call.pending]]
    /\ UNCHANGED <<importVars, hookVars, committed, storage, runs, gone>>

\* one pass of the loop of that call, for the webhook the database returned next,
\* with the payload of the instance
product_signal_delay(i) ==
    /\ requests[i].pc = "delay"
    /\ \E id \in requests[i].pending :
       LET r == requests[i]
           payload == [event |-> r.event, product |-> _product_payload(Head(r.todo))]
           pass == Schedule(r.trig, id, r.pending, r.event, payload)
       IN  /\ tasks' = tasks \cup {pass.task}
           /\ triggers' = IF pass.pending = {} THEN Returned(r.trig) ELSE triggers
           /\ requests' = [requests EXCEPT
                  ![i] = IF pass.pending = {} THEN AfterHandler(r)
                         ELSE [r EXCEPT !.pending = pass.pending]]
    /\ UNCHANGED <<importVars, webhooks, nextWebhook, deliveries, nextDelivery, posts,
                   observed, committed, storage, runs, gone>>

\* the handler raises, at its query or at a deliver_webhook.delay: the request
\* ends. A saved row stays; a delete is rolled back, and bulk_delete_products
\* catches the exception; the tasks queued before stay queued
product_signal_raises(i) ==
    /\ requests[i].pc \in {"signal", "delay"}
    /\ requests' = [requests EXCEPT ![i] = Finished(requests[i].view)]
    /\ UNCHANGED <<importVars, triggers, hookVars, committed, storage, runs, gone>>

\* the transaction of the delete commits: the rows it deleted are gone
ProductDeleteCommit(i) ==
    /\ requests[i].pc = "commit"
    /\ products' = { p \in products : p.pk \notin requests[i].deleted }
    /\ requests' = [requests EXCEPT ![i] = Finished(requests[i].view)]
    /\ UNCHANGED <<nextPk, jobs, worker, triggers, hookVars, committed, storage, runs,
                   gone>>

----------------------------------------------------------------------------
(* The import pipeline and the product views; no webhook is configured, so *)
(* the loop of trigger_event_webhooks makes no pass.                       *)

ProductView(budget) ==
    \/ \E v \in FormValues : ProductCreate(v, budget)
    \/ \E p \in products : ProductUpdateGetObject(p.pk, budget)
    \/ \E i \in DOMAIN requests, v \in FormValues : ProductUpdate(i, v)
    \/ \E p \in products : ProductDeleteGetObject(p.pk, budget)
    \/ bulk_delete_products(budget)
    \/ \E i \in DOMAIN requests : ProductDelete(i)
    \/ \E i \in DOMAIN requests : product_signal(i)
    \/ \E i \in DOMAIN requests : ProductDeleteCommit(i)

Next ==
    \/ \E f \in Files(RowPool, MaxRows) : Upload(f)
    \/ \E j \in JobIds : StartJob(j)
    \/ \E j \in JobIds : OpenFile(j)
    \/ \E j \in JobIds : ReadRow(j)
    \/ \E j \in JobIds : UpsertLookup(j)
    \/ \E j \in JobIds : UpsertCommit(j)
    \/ \E j \in JobIds : Finish(j)
    \/ \E j \in JobIds : TriggerCompleted(j)
    \/ \E j \in JobIds : TriggerCompletedRaises(j)
    \/ \E j \in JobIds : HandleException(j)
    \/ ProductView(MaxTriggers)

Spec == Init /\ [][Next]_vars

----------------------------------------------------------------------------
(* The sequential scenario: the catalog is edited, then, every request      *)
(* answered, a file is imported and, once that job has ended, imported      *)
(* again; nothing else writes the product table meanwhile and the task      *)
(* queue accepts every task.                                                *)

Ended(j) == worker[j].pc \in {"done", "raised"}

UploadFirst(f) == jobs = <<>> /\ Upload(f)

\* the same file is uploaded a second time; the product table is recorded
UploadAgain ==
    /\ Len(jobs) = 1
    /\ Ended(1)
    /\ jobs' = Append(jobs, NewJob(jobs[1].file))
    /\ worker' = Append(worker, NewWorker)
    /\ observed' = products
    /\ committed' = Append(committed, <<>>)
    /\ storage' = Append(storage, "stored")
    /\ runs' = Append(runs, <<>>)
    /\ UNCHANGED <<products, nextPk, triggers, webhooks, nextWebhook, deliveries,
                   nextDelivery, tasks, posts, requests, gone>>

EditCatalog == jobs = <<>> /\ ProductView(MaxTriggersAlone)

NextSeq ==
    \/ EditCatalog
    \/ \E f \in Files(RowPool \cup {ShortRow}, MaxRowsSeq) : Quiet /\ UploadFirst(f)
    \/ UploadAgain
    \/ \E j \in JobIds : StartJob(j)
    \/ \E j \in JobIds : OpenFile(j)
    \/ \E j \in JobIds : ReadRow(j)
    \/ \E j \in JobIds : UpsertLookup(j)
    \/ \E j \in JobIds : UpsertCommit(j)
    \/ \E j \in JobIds : Finish(j)
    \/ \E j \in JobIds : TriggerCompleted(j)
    \/ \E j \in JobIds : HandleException(j)

SpecSeq == Init /\ [][NextSeq]_vars

----------------------------------------------------------------------------
(* Failures of a run: the file is gone, the stream cannot be parsed, a     *)
(* statement of the batch transaction is refused by the database.          *)

\* the ways job.file can be lost: the field is empty, the file is off the storage
Losses == {"absent", "deleted"}

\* the statements of the transaction of _upsert_products
Statements == {"bulk_create", "bulk_update", "save"}

\* job.file is emptied before the task loads the job, or the file is removed from
\* the storage before the task opens it
FileLost(j, how) ==
    /\ storage[j] = "stored"
    /\ worker[j].pc \in (IF how = "absent" THEN {"queued"} ELSE {"queued", "open"})
    /\ storage' = [storage EXCEPT ![j] = how]
    /\ UNCHANGED <<products, nextPk, jobs, worker, triggers, hookVars, committed, runs,
                   requests, gone>>

\* "if not job.file: raise ValueError(...)", or job.file.open("rb") raises
OpenFileRaises(j) ==
    /\ worker[j].pc = "open"
    /\ storage[j] # "stored"
    /\ worker' = [worker EXCEPT
            ![j].exc = IF storage[j] = "absent" THEN Msg("ValueError")
                       ELSE Msg("FileNotFoundError"),
            ![j].pc = "except"]
    /\ UNCHANGED <<products, nextPk, jobs, triggers, hookVars, committed, storage, runs,
                   requests, gone>>

\* the reader raises on the next line of the stream (UnicodeDecodeError,
\* csv.Error) before "job.total_rows = idx"
ReadRowRaises(j) ==
    /\ worker[j].pc = "read"
    /\ worker' = [worker EXCEPT ![j].exc = Msg("UnicodeDecodeError"), ![j].pc = "except"]
    /\ UNCHANGED <<products, nextPk, jobs, triggers, hookVars, committed, storage, runs,
                   requests, gone>>

\* a statement of the transaction raises a database error: transaction.atomic()
\* rolls back what the transaction wrote; when the statement is the save of the
\* job, "job.processed_rows = job.processed_rows + len(items)" has run
UpsertCommitRaises(j, stmt) ==
    /\ worker[j].pc = "commit"
    /\ stmt = "bulk_create" => worker[j].to_create # <<>>
    /\ stmt = "bulk_update" => worker[j].to_update # <<>>
    /\ LET w == worker[j]
           processed_rows == IF stmt = "save" THEN w.job.processed_rows + Len(w.buffer)
                             ELSE w.job.processed_rows
       IN  worker' = [worker EXCEPT ![j].job.processed_rows = processed_rows,
                                    ![j].exc = Msg("DatabaseError"),
                                    ![j].pc = "except"]
    /\ UNCHANGED <<products, nextPk, jobs, triggers, hookVars, committed, storage, runs,
                   requests, gone>>

NextFaults ==
    \/ EditCatalog
    \/ \E f \in Files(RowPool, MaxRowsSeq) : Quiet /\ UploadFirst(f)
    \/ \E j \in JobIds, how \in Losses : FileLost(j, how)
    \/ \E j \in JobIds : StartJob(j)
    \/ \E j \in JobIds : OpenFile(j)
    \/ \E j \in JobIds : OpenFileRaises(j)
    \/ \E j \in JobIds : ReadRow(j)
    \/ \E j \in JobIds : ReadRowRaises(j)
    \/ \E j \in JobIds : UpsertLookup(j)
    \/ \E j \in JobIds : UpsertCommit(j)
    \/ \E j \in JobIds, stmt \in Statements : UpsertCommitRaises(j, stmt)
    \/ \E j \in JobIds : Finish(j)
    \/ \E j \in JobIds : TriggerCompleted(j)
    \/ \E j \in JobIds : HandleException(j)

SpecFaults == Init /\ [][NextFaults]_vars

----------------------------------------------------------------------------
(* A fairly scheduled worker: a task that can take a step takes one.       *)

\* the database refuses the save of the reset (line 36, before the try block):
\* the exception leaves the task, the row of the job is as it was
StartJobRaises(j) ==
    /\ worker[j].pc = "queued"
    /\ worker' = [worker EXCEPT ![j].exc = Msg("OperationalError"), ![j].pc = "raised"]
    /\ UNCHANGED <<products, nextPk, jobs, triggers, hookVars, committed, storage, runs,
                   requests, gone>>

\* the steps of the task of job j
JobStep(j) ==
    \/ StartJob(j)
    \/ StartJobRaises(j)
    \/ OpenFile(j)
    \/ OpenFileRaises(j)
    \/ ReadRow(j)
    \/ ReadRowRaises(j)
    \/ UpsertLookup(j)
    \/ UpsertCommit(j)
    \/ \E stmt \in Statements : UpsertCommitRaises(j, stmt)
    \/ Finish(j)
    \/ TriggerCompleted(j)
    \/ HandleException(j)

NextLive ==
    \/ EditCatalog
    \/ \E f \in Files(RowPool, MaxRowsSeq) : Quiet /\ UploadFirst(f)
    \/ \E j \in JobIds, how \in Losses : FileLost(j, how)
    \/ \E j \in JobIds : StartJob(j)
    \/ \E j \in JobIds : StartJobRaises(j)
    \/ \E j \in JobIds : OpenFile(j)
    \/ \E j \in JobIds : OpenFileRaises(j)
    \/ \E j \in JobIds : ReadRow(j)
    \/ \E j \in JobIds : ReadRowRaises(j)
    \/ \E j \in JobIds : UpsertLookup(j)
    \/ \E j \in JobIds : UpsertCommit(j)
    \/ \E j \in JobIds, stmt \in Statements : UpsertCommitRaises(j, stmt)
    \/ \E j \in JobIds : Finish(j)
    \/ \E j \in JobIds : TriggerCompleted(j)
    \/ \E j \in JobIds : HandleException(j)

\* the worker pool runs every queued task and every task it runs goes on
WorkerFairness == \A j \in 1..MaxJobs : WF_vars(j \in JobIds /\ JobStep(j))

SpecLive == Init /\ [][NextLive]_vars /\ WorkerFairness

----------------------------------------------------------------------------
(* Re-invocation: the task of a job whose run has ended is queued again.   *)

\* process_import_job.delay(job_id) for a job that has been run: a new task with
\* its own locals; the row of the job is as the earlier run left it
Reinvoke(j) ==
    /\ Ended(j)
    /\ Len(runs[j]) + 1 < MaxRuns
    /\ worker' = [worker EXCEPT ![j] = NewWorker]
    /\ runs' = [runs EXCEPT ![j] = Append(@, jobs[j].status)]
    /\ UNCHANGED <<products, nextPk, jobs, triggers, hookVars, committed, storage,
                   requests, gone>>

NextRerun ==
    \/ EditCatalog
    \/ \E f \in Files(RowPool, MaxRowsSeq) : Quiet /\ UploadFirst(f)
    \/ \E j \in JobIds, how \in Losses : FileLost(j, how)
    \/ \E j \in JobIds : Reinvoke(j)
    \/ \E j \in JobIds : StartJob(j)
    \/ \E j \in JobIds : StartJobRaises(j)
    \/ \E j \in JobIds : OpenFile(j)
    \/ \E j \in JobIds : OpenFileRaises(j)
    \/ \E j \in JobIds : ReadRow(j)
    \/ \E j \in JobIds : ReadRowRaises(j)
    \/ \E j \in JobIds : UpsertLookup(j)
    \/ \E j \in JobIds : UpsertCommit(j)
    \/ \E j \in JobIds, stmt \in Statements : UpsertCommitRaises(j, stmt)
    \/ \E j \in JobIds : Finish(j)
    \/ \E j \in JobIds : TriggerCompleted(j)
    \/ \E j \in JobIds : TriggerCompletedRaises(j)
    \/ \E j \in JobIds : HandleException(j)

SpecRerun == Init /\ [][NextRerun]_vars

----------------------------------------------------------------------------
(* Webhook views.                                                          *)

\* WebhookCreateView with a valid form
WebhookCreate(v) ==
    /\ nextWebhook <= MaxWebhooks
    /\ webhooks' = webhooks \cup
            {[id |-> nextWebhook, event |-> v.event, is_enabled |-> v.is_enabled]}
    /\ nextWebhook' = nextWebhook + 1
    /\ UNCHANGED <<importVars, triggers, deliveries, nextDelivery, tasks, posts, observed,
                   committed, storage, runs, requests, gone>>

\* WebhookUpdateView: get_object() reads the row of the key
WebhookUpdateGetObject(id) ==
    /\ Started({"WebhookUpdateView"}) < MaxWebhookEdits
    /\ \E old \in webhooks : old.id = id
    /\ requests' = Append(requests, Request("WebhookUpdateView", "save", id, "", <<>>, {}))
    /\ UNCHANGED <<importVars, triggers, hookVars, committed, storage, runs, gone>>

\* WebhookUpdateView with a valid form, form.save(): the row of the key is
\* updated; when the row is gone, Model.save() INSERTs it with that key
WebhookUpdate(i, v) ==
    /\ requests[i].view = "WebhookUpdateView" /\ requests[i].pc = "save"
    /\ LET id == requests[i].pk
           new == [id |-> id, event |-> v.event, is_enabled |-> v.is_enabled]
       IN  webhooks' = { w \in webhooks : w.id # id } \cup {new}
    /\ requests' = [requests EXCEPT ![i] = Finished("WebhookUpdateView")]
    /\ UNCHANGED <<importVars, triggers, nextWebhook, deliveries, nextDelivery, tasks,
                   posts, observed, committed, storage, runs, gone>>

\* WebhookDeleteView: on_delete=CASCADE deletes the webhook's deliveries with it
WebhookDelete(id) ==
    /\ \E old \in webhooks :
         /\ old.id = id
         /\ webhooks' = webhooks \ {old}
    /\ deliveries' = { d \in deliveries : d.webhook # id }
    /\ gone' = gone \cup {id}
    /\ UNCHANGED <<importVars, triggers, nextWebhook, nextDelivery, tasks, posts, observed,
                   committed, storage, runs, requests>>

\* the payload of send_test_webhook
TestPayload == [type |-> "test", message |-> "Test webhook from Product Importer"]

\* the send_test_webhook tasks queued so far, run or not
Tests == { t \in tasks : t.trig < 0 }

\* webhook_test: send_test_webhook.delay(webhook.id) for an existing webhook. The
\* task belongs to no call of trigger_event_webhooks: trig numbers the tests
\* below zero
webhook_test(id) ==
    /\ Cardinality(Tests) < MaxTests
    /\ \E w \in webhooks : w.id = id
    /\ tasks' = tasks \cup
            {[trig |-> 0 - (Cardinality(Tests) + 1), webhook |-> id, event |-> "",
              payload |-> TestPayload, pc |-> "test", delivery |-> 0, outcome |-> <<>>,
              exc |-> <<>>]}
    /\ UNCHANGED <<importVars, triggers, webhooks, nextWebhook, deliveries,
                   nextDelivery, posts, observed, committed, storage, runs, requests, gone>>

----------------------------------------------------------------------------
(* Delivery Worker: deliver_webhook.                                       *)

\* the length of text[:n]
Truncated(text, n) == IF text <= n THEN text ELSE n

\* the bound of error_message
ERROR_LIMIT == 500

\* requests.Response.ok: no 4xx or 5xx status
ok(status_code) == ~(400 <= status_code /\ status_code < 600)

SetTask(t, new) == tasks' = (tasks \ {t}) \cup {new}

\* the receipt as deliver_webhook holds it after WebhookDelivery.objects.create
NewDelivery(id, webhook) ==
    [id |-> id, webhook |-> webhook, status_code |-> {}, response_time_ms |-> {},
     success |-> FALSE, error_message |-> 0]

\* send_test_webhook: Webhook.objects.get(pk=webhook_id), DoesNotExist leaves the
\* task; else deliver_webhook.delay(webhook.id, payload, event=webhook.event),
\* whether the webhook is enabled or not, and the task ends
send_test_webhook(t) ==
    /\ t \in tasks /\ t.pc = "test"
    /\ IF \E w \in webhooks : w.id = t.webhook
       THEN LET webhook == CHOOSE w \in webhooks : w.id = t.webhook
            IN  SetTask(t, QueuedTask(t.trig, webhook.id, webhook.event, TestPayload))
       ELSE SetTask(t, [t EXCEPT !.pc = "raised"])
    /\ UNCHANGED <<importVars, triggers, webhooks, nextWebhook, deliveries,
                   nextDelivery, posts, observed, committed, storage, runs, requests, gone>>

\* deliver_webhook whose DoesNotExist also ends the other queued deliveries of the
\* same trigger
DeliverLoadRevokes(t) ==
    /\ t \in tasks /\ t.pc = "queued"
    /\ IF \E w \in webhooks : w.id = t.webhook
       THEN SetTask(t, [t EXCEPT !.pc = "loaded"])
       ELSE tasks' = { IF x.trig = t.trig /\ x.pc = "queued"
                       THEN [x EXCEPT !.pc = "raised"] ELSE x : x \in tasks }
    /\ UNCHANGED <<importVars, triggers, webhooks, nextWebhook, deliveries,
                   nextDelivery, posts, observed, committed, storage, runs, requests, gone>>

\* webhook = Webhook.objects.get(pk=webhook_id): DoesNotExist leaves the task
DeliverLoad(t) ==
    /\ t \in tasks /\ t.pc = "queued"
    /\ IF \E w \in webhooks : w.id = t.webhook
       THEN SetTask(t, [t EXCEPT !.pc = "loaded"])
       ELSE SetTask(t, [t EXCEPT !.pc = "raised"])
    /\ UNCHANGED <<importVars, triggers, webhooks, nextWebhook, deliveries,
                   nextDelivery, posts, observed, committed, storage, runs, requests, gone>>

\* WebhookDelivery.objects.create(webhook=webhook, success=False, error_message="");
\* the insert violates the foreign key when the webhook is gone
DeliverCreate(t) ==
    /\ t \in tasks /\ t.pc = "loaded"
    /\ IF \E w \in webhooks : w.id = t.webhook
       THEN /\ deliveries' = deliveries \cup {NewDelivery(nextDelivery, t.webhook)}
            /\ nextDelivery' = nextDelivery + 1
            /\ SetTask(t, [t EXCEPT !.pc = "post", !.delivery = nextDelivery])
       ELSE /\ SetTask(t, [t EXCEPT !.pc = "raised"])
            /\ UNCHANGED <<deliveries, nextDelivery>>
    /\ UNCHANGED <<importVars, triggers, webhooks, nextWebhook, posts, observed, committed,
                   storage, runs, requests, gone>>

\* r = requests.post(webhook.url, json=..., timeout=5) returns or raises
DeliverPost(t, outcome) ==
    /\ t \in tasks /\ t.pc = "post"
    /\ posts' = posts \cup {[trig |-> t.trig, webhook |-> t.webhook, event |-> t.event]}
    /\ SetTask(t, [t EXCEPT !.pc = "save", !.outcome = <<outcome>>])
    /\ UNCHANGED <<importVars, triggers, webhooks, nextWebhook, deliveries,
                   nextDelivery, observed, committed, storage, runs, requests, gone>>

\* the fields of the receipt as the try block or the except block sets them
Recorded(d, outcome) ==
    IF outcome.kind = "response"
    THEN [d EXCEPT !.status_code = {outcome.status_code},
                   !.response_time_ms = {outcome.elapsed},
                   !.success = ok(outcome.status_code),
                   !.error_message = IF ok(outcome.status_code) THEN 0
                                     ELSE Truncated(outcome.text, ERROR_LIMIT)]
    ELSE [d EXCEPT !.status_code = {},
                   !.response_time_ms = {outcome.elapsed},
                   !.success = FALSE,
                   !.error_message = Truncated(outcome.text, ERROR_LIMIT)]

\* the length of str(exc) of the IntegrityError of a refused INSERT
INTEGRITY_ERROR_TEXT == 40

\* int((time.time() - t0) * 1000) in the except block after a refused save: the
\* same millisecond as the measure of the try block, or a later one
Later(elapsed) == {elapsed, elapsed + 1}

\* the exception that the except block handles when delivery.save() of the try
\* block raised IntegrityError
SaveRefused(elapsed) ==
    [kind |-> "exception", status_code |-> 0, text |-> INTEGRITY_ERROR_TEXT,
     elapsed |-> elapsed]

\* delivery.save(): the row is updated; when the cascade has deleted it, save()
\* INSERTs it again with its key, which the foreign key allows when a row with the
\* key of the webhook is in the table again. Without the webhook the INSERT is
\* refused: the IntegrityError of the save in the try block is caught by the
\* except block, which sets the fields and saves again; the IntegrityError of the
\* save in the except block leaves the task
DeliverSave(t) ==
    /\ t \in tasks /\ t.pc = "save"
    /\ LET outcome == IF t.exc = <<>> THEN t.outcome[1] ELSE t.exc[1]
           receipt == Recorded(NewDelivery(t.delivery, t.webhook), outcome)
       IN  IF \E w \in webhooks : w.id = t.webhook
           THEN /\ deliveries' = { d \in deliveries : d.id # t.delivery } \cup {receipt}
                /\ SetTask(t, [t EXCEPT !.pc = "done", !.outcome = <<>>, !.exc = <<>>])
           ELSE /\ IF outcome.kind = "response"
                   THEN \E elapsed \in Later(outcome.elapsed) :
                            SetTask(t, [t EXCEPT !.exc = <<SaveRefused(elapsed)>>])
                   ELSE SetTask(t, [t EXCEPT !.pc = "raised", !.outcome = <<>>,
                                             !.exc = <<>>])
                /\ UNCHANGED deliveries
    /\ UNCHANGED <<importVars, triggers, webhooks, nextWebhook, nextDelivery, posts,
                   observed, committed, storage, runs, requests, gone>>

----------------------------------------------------------------------------
(* The webhook subsystem driven by the product form and the test button.   *)

\* the passes that the calls of trigger_event_webhooks under way are still to make
Reserved ==
    Cardinality(UNION { { <<requests[i].trig, id>> : id \in requests[i].pending } :
                        i \in DOMAIN requests })
    + Cardinality(UNION { { <<worker[j].trig, id>> : id \in worker[j].pending } :
                          j \in JobIds })

\* the scheduling bound: the tasks queued so far and the passes under way leave
\* room for one more task among the room tasks of a specification
Room(room) == Cardinality(tasks) + Reserved < room

\* the scheduling bound for a call of trigger_event_webhooks for the event: there
\* is room for the tasks that the call would add
QueueRoom(event, room) ==
    Cardinality(tasks) + Reserved + Cardinality(Matching(event)) <= room

\* a request waits for its handler to be called
Signals(i) == requests[i].pc = "signal"

NextHooks ==
    \/ \E v \in WebhookFormValues : WebhookCreate(v)
    \/ \E w \in webhooks : WebhookUpdateGetObject(w.id)
    \/ \E i \in DOMAIN requests, v \in WebhookFormValues : WebhookUpdate(i, v)
    \/ \E w \in webhooks : WebhookDelete(w.id)
    \/ \E w \in webhooks : Room(MaxTasks) /\ webhook_test(w.id)
    \/ \E t \in tasks : send_test_webhook(t)
    \/ \E v \in HookFormValues : ProductCreate(v, MaxTriggers)
    \/ \E i \in DOMAIN requests :
            Signals(i) /\ QueueRoom(requests[i].event, MaxTasks) /\ product_signal(i)
    \/ \E i \in DOMAIN requests : product_signal_delay(i)
    \/ \E t \in tasks : DeliverLoad(t)
    \/ \E t \in tasks : DeliverCreate(t)
    \/ \E t \in tasks, outcome \in Outcomes : DeliverPost(t, outcome)
    \/ \E t \in tasks : DeliverSave(t)

SpecHooks == Init /\ [][NextHooks]_vars

----------------------------------------------------------------------------
(* Deliveries against destinations of every kind: redirects, client and    *)
(* server errors with and without a body, status codes outside the         *)
(* registered classes, exceptions with long messages.                      *)

OutcomesOfEveryKind ==
    Outcomes \cup
    { [kind |-> "response", status_code |-> 302, text |-> 0, elapsed |-> 20],
      [kind |-> "response", status_code |-> 404, text |-> 0, elapsed |-> 20],
      [kind |-> "response", status_code |-> 600, text |-> 3, elapsed |-> 20],
      [kind |-> "exception", status_code |-> 0, text |-> 600, elapsed |-> 5001] }

NextDeliver ==
    \/ \E v \in WebhookFormValues : WebhookCreate(v)
    \/ \E w \in webhooks : WebhookUpdateGetObject(w.id)
    \/ \E i \in DOMAIN requests, v \in WebhookFormValues : WebhookUpdate(i, v)
    \/ \E w \in webhooks : WebhookDelete(w.id)
    \/ \E w \in webhooks : Room(MaxTasksEvents) /\ webhook_test(w.id)
    \/ \E t \in tasks : send_test_webhook(t)
    \/ \E v \in HookFormValues : ProductCreate(v, MaxTriggers)
    \/ \E i \in DOMAIN requests :
            Signals(i) /\ QueueRoom(requests[i].event, MaxTasksEvents) /\ product_signal(i)
    \/ \E i \in DOMAIN requests : product_signal_delay(i)
    \/ \E t \in tasks : DeliverLoad(t)
    \/ \E t \in tasks : DeliverCreate(t)
    \/ \E t \in tasks, outcome \in OutcomesOfEveryKind : DeliverPost(t, outcome)
    \/ \E t \in tasks : DeliverSave(t)

SpecDeliver == Init /\ [][NextDeliver]_vars

----------------------------------------------------------------------------
(* Producers and deliveries together: one import job and the product form  *)
(* trigger events while webhooks are created, deleted and tested and the   *)
(* delivery tasks run.                                                     *)

\* the webhooks created here subscribe to the events of the two producers
EventFormValues == [event : {"import.completed", "product.created"}, is_enabled : {TRUE}]

NextEvents ==
    \/ \E v \in EventFormValues : WebhookCreate(v)
    \/ \E w \in webhooks : WebhookDelete(w.id)
    \/ \E w \in webhooks : Room(MaxTasksEvents) /\ webhook_test(w.id)
    \/ \E t \in tasks : send_test_webhook(t)
    \/ \E v \in HookFormValues : ProductCreate(v, MaxTriggers)
    \/ \E i \in DOMAIN requests :
            Signals(i) /\ QueueRoom(requests[i].event, MaxTasksEvents) /\ product_signal(i)
    \/ \E i \in DOMAIN requests : product_signal_delay(i)
    \/ \E f \in Files(RowPool, MaxRowsEvents) : UploadFirst(f)
    \/ \E j \in JobIds : StartJob(j)
    \/ \E j \in JobIds : OpenFile(j)
    \/ \E j \in JobIds : ReadRow(j)
    \/ \E j \in JobIds : UpsertLookup(j)
    \/ \E j \in JobIds : UpsertCommit(j)
    \/ \E j \in JobIds : Finish(j)
    \/ \E j \in JobIds :
            QueueRoom("import.completed", MaxTasksEvents) /\ TriggerCompleted(j)
    \/ \E j \in JobIds : TriggerCompletedDelay(j)
    \/ \E j \in JobIds : TriggerCompletedRaises(j)
    \/ \E j \in JobIds : TriggerCompletedRaisesMidway(j)
    \/ \E j \in JobIds : HandleException(j)
    \/ \E t \in tasks : DeliverLoad(t)
    \/ \E t \in tasks : DeliverCreate(t)
    \/ \E t \in tasks, outcome \in Outcomes : DeliverPost(t, outcome)
    \/ \E t \in tasks : DeliverSave(t)

SpecEvents == Init /\ [][NextEvents]_vars

----------------------------------------------------------------------------
(* Every writer of the product table: the four product views, whose        *)
(* handlers trigger events for the webhooks and may fail, and one import    *)
(* job.  The delivery tasks stay queued.                                    *)

\* the webhooks created here subscribe to the events of the product views
SignalFormValues ==
    [event : {"product.created", "product.updated", "product.deleted"}, is_enabled : {TRUE}]

NextSignals ==
    \/ \E v \in SignalFormValues : WebhookCreate(v)
    \/ \E v \in FormValues : ProductCreate(v, MaxTriggersAlone)
    \/ \E p \in products : ProductUpdateGetObject(p.pk, MaxTriggersAlone)
    \/ \E i \in DOMAIN requests, v \in FormValues : ProductUpdate(i, v)
    \/ \E p \in products : ProductDeleteGetObject(p.pk, MaxTriggersAlone)
    \/ bulk_delete_products(MaxTriggersAlone)
    \/ \E i \in DOMAIN requests : ProductDelete(i)
    \/ \E i \in DOMAIN requests :
            Signals(i) /\ QueueRoom(requests[i].event, MaxTasks) /\ product_signal(i)
    \/ \E i \in DOMAIN requests : product_signal_delay(i)
    \/ \E i \in DOMAIN requests : product_signal_raises(i)
    \/ \E i \in DOMAIN requests : ProductDeleteCommit(i)
    \/ \E f \in Files(RowPool, MaxRowsEvents) : UploadFirst(f)
    \/ \E j \in JobIds : StartJob(j)
    \/ \E j \in JobIds : OpenFile(j)
    \/ \E j \in JobIds : ReadRow(j)
    \/ \E j \in JobIds : UpsertLookup(j)
    \/ \E j \in JobIds : UpsertCommit(j)
    \/ \E j \in JobIds : Finish(j)
    \/ \E j \in JobIds : TriggerCompleted(j)
    \/ \E j \in JobIds : HandleException(j)

SpecSignals == Init /\ [][NextSignals]_vars

----------------------------------------------------------------------------
(* Vocabulary of the properties.                                           *)

\* the rows of a file that carry a SKU
WithSku(file) == { i \in 1..Len(file) : strip(get_or_empty(file[i], "sku")) # <<>> }

\* the SKU of row i of a file, case-folded
FoldedSku(file, i) == lower(strip(get_or_empty(file[i], "sku")))

\* no two rows of the file carry the same SKU under case folding
NoCollision(file) ==
    \A i \in WithSku(file), k \in WithSku(file) :
        i # k => FoldedSku(file, i) # FoldedSku(file, k)

\* the last row of the file with the case-folded SKU key
LastRowWith(file, key) ==
    CHOOSE i \in WithSku(file) :
        /\ FoldedSku(file, i) = key
        /\ \A k \in WithSku(file) : FoldedSku(file, k) = key => k <= i

\* the file makes one batch, and two of its records share a SKU under case folding
OneBatchWithDuplicates(file) ==
    /\ Cardinality(WithSku(file)) <= CHUNK_SIZE
    /\ ~NoCollision(file)

\* the task of job j has taken its stream to the end
StreamRead(j) ==
    \/ worker[j].pc \in {"finish", "trigger", "publish", "done"}
    \/ worker[j].pc \in {"lookup", "commit"} /\ worker[j].at = "flush"

Committed(j) == worker[j].pc \in {"finish", "trigger", "publish", "done"}

TasksOf(i) == { t \in tasks : t.trig = i }

\* the call with index i has returned and the deliveries it scheduled have run
AllRun(i) == triggers[i].returned /\ \A t \in TasksOf(i) : t.pc \in {"done", "raised"}

\* the receipts in the table that the tasks of trigger i created
ReceiptsOf(i) == { d \in deliveries : \E t \in TasksOf(i) : t.delivery = d.id }

WebhookExists(id) == \E w \in webhooks : w.id = id

----------------------------------------------------------------------------
(* Properties.                                                             *)

\* C1: in every reachable state no two persisted products have SKUs that are
\* equal under case folding, whatever import batches, concurrent import jobs and
\* manual create, edit and delete operations have run.
C1_SkuUniqueUnderCaseFolding ==
    \A p \in products, q \in products : p # q => lower(p.sku) # lower(q.sku)

\* of two jobs one has committed a batch and the other had its batch refused by
\* the constraint, and a product made in the form and a product made by an import
\* are in the table
C1_Witness ==
    /\ Len(jobs) = 2
    /\ \E j \in JobIds : jobs[j].processed_rows > 0
    /\ \E j \in JobIds : worker[j].exc = Msg("IntegrityError")
    /\ \E p \in products, q \in products : p.name = <<"u">> /\ q.name # <<"u">>

\* C2: a batch with two or more records whose SKUs are equal under case folding
\* commits, the job completes with total_rows the rows read and processed_rows
\* the rows with a SKU, and afterwards exactly one product has that SKU, holding
\* the name, description and price of the last such record in file order.
C2_LastDuplicateWins ==
    \A j \in JobIds :
        (worker[j].pc \in {"done", "raised"} /\ OneBatchWithDuplicates(jobs[j].file)) =>
            LET file == jobs[j].file
            IN  /\ jobs[j].status = "completed"
                /\ jobs[j].total_rows = Len(file)
                /\ jobs[j].processed_rows = Cardinality(WithSku(file))
                /\ \A i \in WithSku(file) :
                     LET key == FoldedSku(file, i)
                         item == _normalize_row(file[LastRowWith(file, key)])
                         rows == { p \in products : lower(p.sku) = key }
                     IN  /\ Cardinality(rows) = 1
                         /\ \A p \in rows : /\ p.name = item.name
                                            /\ p.description = item.description
                                            /\ p.price = item.price

\* C3: the commit of a batch never changes is_active (nor the SKU) of a product
\* that exists when the batch commits, and deletes none, also when the product
\* was edited in the form after the lookup of the batch.
C3_ImportKeepsIsActive ==
    [][\A j \in JobIds :
          (worker[j].pc = "commit" /\ worker'[j].pc # "commit") =>
              \A p \in products : \E q \in products' :
                  q.pk = p.pk /\ q.is_active = p.is_active /\ q.sku = p.sku]_vars

\* a batch has committed over a product whose is_active was changed in the form
\* after the lookup of the batch had read it: the product has the name of the
\* batch and the is_active of the form
C3_Witness ==
    \E j \in JobIds :
        /\ Committed(j)
        /\ \E k \in DOMAIN worker[j].existing : \E p \in products :
             /\ p.pk = worker[j].existing[k].pk
             /\ p.is_active # worker[j].existing[k].is_active
             /\ p.name = worker[j].existing[k].name
             /\ p.name # <<"u">>

\* C4: the persisted status of a job only moves pending -> processing ->
\* completed or pending -> processing -> failed; once completed or failed it
\* never changes again.
C4_TerminalStatusIsFinal ==
    [][\A j \in JobIds :
          \/ jobs'[j].status = jobs[j].status
          \/ jobs[j].status = "pending" /\ jobs'[j].status = "processing"
          \/ jobs[j].status = "processing" /\ jobs'[j].status \in {"completed", "failed"}]_vars

\* C5: during a run the persisted processed_rows never decreases, and in every
\* persisted state after the stream was read to its end processed_rows is at
\* most total_rows.
C5_ProcessedWithinTotal ==
    /\ [](\A j \in JobIds : StreamRead(j) => jobs[j].processed_rows <= jobs[j].total_rows)
    /\ [][\A j \in JobIds :
            worker[j].pc # "queued" => jobs'[j].processed_rows >= jobs[j].processed_rows]_vars

\* C6: the progress returned by the Progress Query for the persisted counters of
\* a job is an integer from 0 to 100, equal to floor(processed_rows * 100 /
\* total_rows) when total_rows > 0 and to 0 otherwise.
C6_ProgressWithinRange ==
    \A j \in JobIds :
        LET r == import_status_api(j)
        IN  /\ r.progress \in 0..100
            /\ r.progress = IF r.total_rows > 0
                            THEN (r.processed_rows * 100) \div r.total_rows
                            ELSE 0

\* C7: a job whose file has no two rows with the same SKU under case folding ends
\* completed, with total_rows the number of data rows, skipped rows included, and
\* processed_rows the number of rows with a SKU; every product is as the form
\* left it or carries the SKU and the name of a row with a SKU.
C7_SkippedRowsCounted ==
    \A j \in JobIds :
        (Ended(j) /\ NoCollision(jobs[j].file)) =>
            LET file == jobs[j].file
            IN  /\ jobs[j].status = "completed"
                /\ jobs[j].total_rows = Len(file)
                /\ jobs[j].processed_rows = Cardinality(WithSku(file))
                /\ \A p \in products :
                     \/ p.name = <<"u">> /\ p.price = 500
                     \/ \E i \in WithSku(file) :
                          /\ lower(p.sku) = FoldedSku(file, i)
                          /\ p.name = strip(get_or_empty(file[i], "name"))

\* a job has ended on a file with a row with a blank SKU, a row without the sku
\* column and a row with a SKU
C7_Witness ==
    \E j \in JobIds :
        /\ Ended(j)
        /\ NoCollision(jobs[j].file)
        /\ Len(jobs[j].file) = 3
        /\ Cardinality(WithSku(jobs[j].file)) = 1
        /\ \E i \in 1..3 : jobs[j].file[i] = ShortRow
        /\ \E i \in 1..3 : "sku" \in DOMAIN jobs[j].file[i] /\ i \notin WithSku(jobs[j].file)
        /\ products # {}

\* C8: when a file is imported again after its first import has completed, and
\* nothing else writes meanwhile, the second run completes and leaves the product
\* table as the first run left it: the same rows with the same values.
C8_ReimportIdempotent ==
    (Len(jobs) = 2 /\ jobs[1].status = "completed" /\ Ended(2)) =>
        /\ jobs[2].status = "completed"
        /\ products = observed

\* a file with a row for a product that was deactivated in the form, and with a
\* SKU in two batches, has been imported twice
C8_Witness ==
    /\ Len(jobs) = 2 /\ jobs[1].status = "completed" /\ Ended(2)
    /\ \E p \in products : ~p.is_active /\ p.name # <<"u">>
    /\ Cardinality(WithSku(jobs[1].file)) = 3
    /\ ~NoCollision(jobs[1].file)

\* C9: once a call of trigger_event_webhooks that found N enabled webhooks has
\* returned and the delivery tasks it scheduled have run, exactly N receipts have
\* been created for the trigger, one per matching webhook, whatever the webhook
\* operations between scheduling and execution.
C9_OneReceiptPerMatch ==
    \A i \in 1..Len(triggers) :
        AllRun(i) =>
            Cardinality({ t \in TasksOf(i) : t.delivery # 0 })
                = Cardinality(triggers[i].matched)

\* C9, amended: once a call that found N enabled webhooks has returned and the
\* delivery tasks it scheduled have run, every matching webhook that was never
\* deleted has exactly one receipt of the trigger; every receipt of the trigger
\* belongs to a matching webhook and has a boolean success; a matching webhook
\* for which no receipt was created is one that was deleted. Nothing is said of
\* the receipts of a deleted webhook: an edit that read it before the deletion
\* inserts it again, and its delivery then creates a receipt as for any other.
C9_OneReceiptPerSurvivingMatch ==
    \A i \in 1..Len(triggers) :
        AllRun(i) =>
            /\ \A w \in triggers[i].matched :
                 w \notin gone =>
                     Cardinality({ d \in ReceiptsOf(i) : d.webhook = w }) = 1
            /\ \A d \in ReceiptsOf(i) :
                 d.webhook \in triggers[i].matched /\ d.success \in BOOLEAN
            /\ \A w \in triggers[i].matched :
                 (\A t \in TasksOf(i) : t.webhook = w => t.delivery = 0) =>
                     w \in gone

\* a trigger found two webhooks, both deliveries have run, one to a destination
\* that answered and one to a destination that could not be reached
C9_Witness ==
    \E i \in 1..Len(triggers) :
        /\ Cardinality(triggers[i].matched) = 2
        /\ AllRun(i)
        /\ Cardinality(ReceiptsOf(i)) = 2
        /\ \E d \in ReceiptsOf(i) : d.status_code = {} /\ ~d.success
        /\ \E d \in ReceiptsOf(i) : d.success

\* C10: a delivery task scheduled by a trigger creates its receipt and sends its
\* POST only while the webhook is enabled and configured for the event of the
\* trigger, also when the webhook was edited after the delivery was scheduled.
C10_NoDeliveryToDisabledOrOtherEvent ==
    [][\A t \in tasks : \A u \in tasks' :
          (/\ t.trig > 0
           /\ u.trig = t.trig /\ u.webhook = t.webhook
           /\ \/ t.pc = "loaded" /\ u.pc = "post"
              \/ t.pc = "post" /\ u.pc = "save") =>
              \A w \in webhooks : w.id = t.webhook => w.is_enabled /\ w.event = t.event]_vars

\* the sum of a sequence of batch sizes
RECURSIVE Sum(_)
Sum(sizes) == IF sizes = <<>> THEN 0 ELSE Head(sizes) + Sum(Tail(sizes))

\* C11: in every persisted state processed_rows of a job is the sum of the sizes
\* of the batches its current run committed, and a batch transaction that fails
\* at an insert, an update or the write of processed_rows leaves the product
\* table and the persisted job as they were, earlier batches included.
C11_BatchAtomicWithCounter ==
    /\ [](\A j \in JobIds : jobs[j].processed_rows = Sum(committed[j]))
    /\ [][\A j \in JobIds :
            (worker[j].pc = "commit" /\ worker'[j].pc = "except") =>
                products' = products /\ jobs' = jobs]_vars

\* the second batch of a run failed at the write of processed_rows after the first
\* batch had committed, and the job has been recorded as failed
C11_Witness ==
    \E j \in JobIds :
        /\ worker[j].pc = "raised"
        /\ worker[j].exc = Msg("DatabaseError")
        /\ committed[j] = <<CHUNK_SIZE>>
        /\ worker[j].job.processed_rows > jobs[j].processed_rows
        /\ jobs[j].processed_rows = CHUNK_SIZE
        /\ products # {}

\* C12: a run that hits a failure (no file attached, file missing, parse error,
\* failed batch statement) goes through the except block and leaves it by raising;
\* the job is then persisted as failed with the message of the exception, no
\* import.completed event has been triggered, and processed_rows is 0 when the
\* file was absent or missing.
C12_FailureRecorded ==
    /\ [](\A j \in JobIds :
            worker[j].pc = "raised" =>
                /\ jobs[j].status = "failed"
                /\ worker[j].exc # <<>>
                /\ jobs[j].error_message = worker[j].exc
                /\ \A i \in 1..Len(triggers) : triggers[i].event # "import.completed"
                /\ worker[j].exc \in {Msg("ValueError"), Msg("FileNotFoundError")} =>
                       jobs[j].processed_rows = 0)
    /\ [][\A j \in JobIds :
            /\ worker[j].pc = "except" => worker'[j].pc \in {"except", "raised"}
            /\ worker'[j].pc = "except" =>
                   worker[j].pc \in {"except", "open", "read", "commit"}]_vars

\* the file of a job with rows was removed from the storage before the task
\* opened it, and the run has ended
C12_Witness ==
    \E j \in JobIds :
        /\ worker[j].pc = "raised"
        /\ storage[j] = "deleted"
        /\ jobs[j].error_message = Msg("FileNotFoundError")
        /\ Len(jobs[j].file) > 0
        /\ products # {}

\* C13: an execution of deliver_webhook that has loaded its webhook sends at most
\* one POST and returns normally: it never leaves by raising, whatever the
\* outcome of the call and whatever happens to the webhook meanwhile.
C13_DeliveryReturnsNormally ==
    [][\A t \in tasks : \A u \in tasks' :
          (u.trig = t.trig /\ u.webhook = t.webhook) =>
              /\ t.pc \in {"loaded", "post", "save"} => u.pc # "raised"
              /\ t.pc \in {"save", "done", "raised"} => u.pc # "post"
              /\ (t.pc = "post" /\ u.pc # "post") => u.pc = "save"]_vars

\* the calls of trigger_event_webhooks with the event
TriggersOf(event) == { i \in 1..Len(triggers) : triggers[i].event = event }

\* C14: import.completed is triggered once per run that ends successfully (the
\* run is inside the call or has returned from it) and for no other run; a
\* delivery of the event scheduled by a trigger carries the persisted total_rows,
\* processed_rows and status of its job, and that job is persisted as completed.
C14_CompletedEventOnlyForCompletedJob ==
    /\ Cardinality(TriggersOf("import.completed"))
           = Cardinality({ j \in JobIds : worker[j].pc \in {"publish", "done"} })
    /\ \A t \in tasks :
         (t.trig > 0 /\ t.event = "import.completed") =>
             LET job == jobs[t.payload.job_id]
             IN  /\ job.status = "completed"
                 /\ t.payload.status = job.status
                 /\ t.payload.total_rows = job.total_rows
                 /\ t.payload.processed_rows = job.processed_rows

\* C15: a step that creates or changes a product leaves a request at the call of
\* its handler for that product, with product.created or product.updated; a step
\* that deletes a product is the commit of a request whose handler has called
\* trigger_event_webhooks for that product; and a request at the call of its
\* handler goes on only by calling trigger_event_webhooks with its event, or by
\* the call raising. This holds for the product views and for the commit of an
\* import batch.
C15_EveryProductWriteTriggers ==
    [][LET created == { p \in products' : \A q \in products : q.pk # p.pk }
           deleted == { p \in products : \A q \in products' : q.pk # p.pk }
           updated == { p \in products' : \E q \in products : q.pk = p.pk /\ q # p }
           AtHandler(p, event) ==
               \E i \in DOMAIN requests' :
                   /\ requests'[i].pc = "signal"
                   /\ requests'[i].todo = <<p>>
                   /\ requests'[i].event = event
       IN  /\ \A p \in created : AtHandler(p, "product.created")
           /\ \A p \in updated : AtHandler(p, "product.updated")
           /\ \A p \in deleted :
                \E i \in DOMAIN requests :
                    /\ requests[i].pc = "commit" /\ requests'[i].pc = "finished"
                    /\ requests[i].event = "product.deleted"
                    /\ p.pk \in requests[i].called
           /\ \A i \in DOMAIN requests :
                (requests[i].pc = "signal" /\ requests'[i] # requests[i]) =>
                    \/ /\ Len(triggers') = Len(triggers) + 1
                       /\ triggers'[Len(triggers')].event = requests[i].event
                       /\ requests[i].event \in {"product.created", "product.updated",
                                                 "product.deleted"}
                    \/ requests'[i].pc = "finished" /\ triggers' = triggers]_vars

\* the records of the file of job j among its first idx rows
RecordsUpTo(j, idx) == Cardinality({ i \in WithSku(jobs[j].file) : i <= idx })

\* no run other than that of job j is between its first and its last statement
OnlyRun(j) == \A k \in JobIds : k # j => worker[k].pc \in {"queued", "done", "raised"}

\* C16: the lookup of a batch starts, and its transaction commits, only when all
\* records before the batch are committed; once a job has completed, the product
\* of every SKU of the file, also of one that appears in several batches, has the
\* name, description and price of the last row with that SKU.
C16_BatchesInFileOrder ==
    /\ [](\A j \in JobIds :
            (Ended(j) /\ jobs[j].status = "completed" /\ OnlyRun(j)) =>
                \A i \in WithSku(jobs[j].file) :
                    LET file == jobs[j].file
                        key == FoldedSku(file, i)
                        item == _normalize_row(file[LastRowWith(file, key)])
                    IN  \E p \in products :
                            /\ lower(p.sku) = key
                            /\ p.name = item.name
                            /\ p.description = item.description
                            /\ p.price = item.price)
    /\ [][\A j \in JobIds :
            /\ (worker[j].pc # "lookup" /\ worker'[j].pc = "lookup") =>
                   Sum(committed'[j]) + Len(worker'[j].buffer)
                       = RecordsUpTo(j, worker'[j].idx)
            /\ (Len(committed'[j]) > Len(committed[j])) =>
                   Sum(committed'[j]) = RecordsUpTo(j, worker[j].idx)]_vars

\* a job has completed in two batches, and the SKU of the first row comes again,
\* in another case and with another name, in the second batch
C16_Witness ==
    \E j \in JobIds :
        /\ Ended(j) /\ jobs[j].status = "completed" /\ OnlyRun(j)
        /\ Len(committed[j]) = 2
        /\ Len(jobs[j].file) = 3
        /\ FoldedSku(jobs[j].file, 1) = FoldedSku(jobs[j].file, 3)
        /\ jobs[j].file[1] # jobs[j].file[3]

\* no product view has written: every logged event is an import.completed
OnlyImports == \A i \in 1..Len(triggers) : triggers[i].event = "import.completed"

\* C17: when import jobs run concurrently and nothing else writes, a batch of a
\* job whose file has no duplicate SKU is never refused because another job
\* holds the same SKU: every batch commits and no such job fails on the
\* constraint.
C17_ConcurrentJobsBothCommit ==
    \A j \in JobIds :
        (OnlyImports /\ NoCollision(jobs[j].file)) =>
            /\ worker[j].exc # Msg("IntegrityError")
            /\ jobs[j].status # "failed" \/ worker[j].exc = Msg("OperationalError")

\* the execution that created receipt d
CreatorOf(d) == { t \in tasks : t.delivery = d.id }

\* C18: a receipt comes into the table with success=false, no status code and no
\* response time, by an execution that has not sent its POST yet; an execution
\* that goes on to its POST has created exactly one receipt, its own, and keeps
\* it; once the execution has made its final save the receipt never changes; a
\* receipt leaves the table only in the step that deletes its webhook.
C18_ReceiptWrittenOnce ==
  /\ [](\A t \in tasks :
          /\ t.pc \in {"post", "save", "done"} => t.delivery # 0
          /\ t.pc \in {"queued", "loaded"} => t.delivery = 0
          /\ \A u \in tasks : (u.delivery = t.delivery /\ u.delivery # 0) => u = t)
  /\
    [][/\ \A d \in deliveries' :
            (\A e \in deliveries : e.id # d.id) =>
                /\ ~d.success /\ d.status_code = {} /\ d.response_time_ms = {}
                /\ d.error_message = 0
                /\ d.id = nextDelivery /\ nextDelivery' = nextDelivery + 1
                /\ \E t \in tasks : \E u \in tasks' :
                     /\ t.pc = "loaded" /\ t.delivery = 0
                     /\ u.trig = t.trig /\ u.webhook = t.webhook
                     /\ u.pc = "post" /\ u.delivery = d.id
       /\ \A t \in tasks : \A u \in tasks' :
            (u.trig = t.trig /\ u.webhook = t.webhook /\ t.delivery # 0) =>
                u.delivery = t.delivery
       /\ \A d \in deliveries :
            /\ (\E t \in CreatorOf(d) : t.pc \in {"done", "raised"}) =>
                   (d \in deliveries' \/ \A e \in deliveries' : e.id # d.id)
            /\ (\A e \in deliveries' : e.id # d.id) =>
                   /\ \E w \in webhooks : w.id = d.webhook
                   /\ \A w \in webhooks' : w.id # d.webhook]_vars

\* the receipt with key id, in a table
ReceiptIn(table, id) == CHOOSE d \in table : d.id = id

\* the status code is in the 2xx/3xx range
In2xx3xx(status_code) == 200 <= status_code /\ status_code < 400

\* the final save of an execution writes what rel describes for the way its call
\* ended and for the exception of a refused first save, if there was one
SavedAs(rel(_, _, _)) ==
    \A t \in tasks : \A u \in tasks' :
        (/\ u.trig = t.trig /\ u.webhook = t.webhook
         /\ t.pc = "save" /\ u.pc = "done") =>
            rel(ReceiptIn(deliveries', t.delivery), t.outcome[1], t.exc)

\* what every receipt holds, whatever the call did
ReceiptSound(d) ==
    /\ d.success => d.error_message = 0 /\ d.status_code # {}
    /\ d.error_message <= ERROR_LIMIT
    /\ d.status_code = {} => ~d.success

\* what a receipt holds when the call never completed, and only then
NullOnlyWithoutResponse(d, outcome) ==
    /\ d.status_code = {} <=> outcome.kind = "exception"
    /\ outcome.kind = "exception" => ~d.success /\ d.error_message > 0
    /\ outcome.kind = "response" => d.status_code = {outcome.status_code}
    /\ d.response_time_ms = {outcome.elapsed}

\* C19: the receipt that the final save of an execution writes has success
\* exactly when requests.post returned a response with a status code in the
\* 2xx/3xx range; its status_code is null exactly when the call never completed,
\* then with success false and a non-empty message; success implies an empty
\* message; a message has at most 500 characters.
C19_SuccessIff2xx3xx ==
    /\ [](\A d \in deliveries : ReceiptSound(d))
    /\ [][SavedAs(LAMBDA d, outcome, exc :
                    /\ NullOnlyWithoutResponse(d, outcome)
                    /\ d.success <=> (outcome.kind = "response"
                                        /\ In2xx3xx(outcome.status_code)))]_vars

Terminal(j) == jobs[j].status \in {"completed", "failed"}

\* C21: under a fairly scheduled worker every uploaded job eventually has a
\* terminal persisted status, and a job whose task has ended, by returning or by
\* raising at any step, has one.
C21_EveryJobTerminates ==
    /\ [](\A j \in JobIds : Ended(j) => Terminal(j))
    /\ \A j \in 1..MaxJobs : (j \in JobIds) ~> (j \in JobIds /\ Terminal(j))

\* C22: every run, first or repeated, starts by persisting status=processing, an
\* empty error_message, total_rows=0 and processed_rows=0; the persisted counters
\* never exceed the rows and the records of the file, however many runs there
\* were; and a run that completes leaves total_rows the rows of the file,
\* processed_rows its records and an empty error_message, as a first run does.
C22_ReinvocationStartsAfresh ==
    /\ [](\A j \in JobIds :
            /\ jobs[j].total_rows <= Len(jobs[j].file)
            /\ jobs[j].processed_rows <= Cardinality(WithSku(jobs[j].file))
            /\ (Ended(j) /\ jobs[j].status = "completed") =>
                   /\ jobs[j].total_rows = Len(jobs[j].file)
                   /\ jobs[j].processed_rows = Cardinality(WithSku(jobs[j].file))
                   /\ jobs[j].error_message = <<>>)
    /\ [][\A j \in JobIds :
            (worker[j].pc = "queued" /\ worker'[j].pc = "open") =>
                /\ jobs'[j].status = "processing"
                /\ jobs'[j].error_message = <<>>
                /\ jobs'[j].total_rows = 0
                /\ jobs'[j].processed_rows = 0
                /\ worker'[j].job.total_rows = 0
                /\ worker'[j].job.processed_rows = 0]_vars

\* the first run of a job failed at its second batch, after the first batch had
\* advanced the counter; the task was invoked again and that run has completed
C22_Witness ==
    \E j \in JobIds :
        /\ runs[j] = <<"failed">>
        /\ Ended(j) /\ jobs[j].status = "completed"
        /\ Len(committed[j]) = 2
        /\ jobs[j].processed_rows = 3

\* C23: in every persisted state of a job a non-empty error_message goes with
\* status failed: a pending, processing or completed job has an empty one, also
\* when an earlier run of the job had failed.
C23_MessageOnlyWhenFailed ==
    \A j \in JobIds : jobs[j].error_message # <<>> => jobs[j].status = "failed"

\* a job whose first run failed is being run again: it is processing, with the
\* first batch of the new run committed, and its message is empty
C23_Witness ==
    \E j \in JobIds :
        /\ runs[j] = <<"failed">>
        /\ jobs[j].status = "processing"
        /\ jobs[j].processed_rows > 0
        /\ jobs[j].error_message = <<>>

====
